---- MODULE Spec2Model ----
(***************************************************************************)
(* A model of the ndscan plot applet (src/ndscan/applet.py): the channel   *)
(* schema extractor, the X-Y and rolling series, the two plot widgets and  *)
(* the main widget that chooses between them and writes datasets back;     *)
(* and of ContextMenuBuilder (src/ndscan/plots/plot_widgets.py).           *)
(*                                                                         *)
(* Python values are modelled as follows.                                  *)
(*   - An optional value (a dict entry that may be missing, None) is a     *)
(*     sequence of length 0 or 1: Absent, Some(v).                         *)
(*   - A JSON text is the sequence holding the document it encodes; the    *)
(*     empty string, which encodes nothing, is the empty sequence.         *)
(*   - A string built by concatenation or format() is the tuple of its     *)
(*     parts.                                                              *)
(*   - A dict is a function; a dict with optional keys is a function whose *)
(*     DOMAIN may lack them.                                               *)
(***************************************************************************)
EXTENDS Integers, Sequences, FiniteSets, TLC

VARIABLES
    \* ---- _extract_scalar_channels, run on its own (SpecExtract) ----
    channels_arg,       \* the `channels` argument
    extract_result,     \* what the call returned or raised; NotRun before the call
    \* ---- _MainWidget ----
    title_set,          \* self.title_set
    window_title,       \* the text last given to setWindowTitle
    plot_initialised,   \* self.plot_initialised
    plot,               \* self.plot: "none" (attribute not yet set), "xy", "rolling"
    plots_created,      \* how many plot widgets have been constructed so far
    message_label,      \* text of self.message_label
    current_widget,     \* the widget_stack's current widget: "message_label", "plot"
    \* ---- _XYPlotWidget / _RollingPlotWidget (the one self.plot names) ----
    x_label,            \* _XYPlotWidget: the label set on the bottom axis
    series_initialised, \* self.series_initialised
    series,             \* self.series, a list of _XYSeries or _Rolling1DSeries
    point_phase,        \* _RollingPlotWidget.point_phase
    num_history_box,    \* _RollingPlotWidget.num_history_box.value()
    extract_calls,      \* how many times this plot widget has run the extractor
    error_emitted,      \* the messages the plot widget's error signal has carried
    \* ---- the call in progress / last made ----
    call_args,          \* (data, mods) of the last _MainWidget.data_changed call
    plot_call_args,     \* (data, mods) the plot widget's data_changed last received
    raised,             \* the exception the last call let escape, "none" if it returned
    \* ---- a series driven on its own (SpecXY, SpecRolling); it is series[1] ----
    series_call,        \* the last call made on the series: its name and arguments
    series_log,         \* _Rolling1DSeries: the calls that took effect, oldest first
    \* ---- _MainWidget.set_dataset ----
    writebacks,         \* the _set_dataset_impl tasks created, each with its position
    log,                \* the records the tasks have given to the logger
    \* ---- ContextMenuBuilder ----
    entries,            \* self._entries
    last_was_no_separator,  \* self._last_was_no_separator
    menu_calls,         \* the calls made on the builder so far, oldest first
    \* ---- shorten_to_unambiguous_suffixes (src/ndscan/utils.py) ----
    shorten             \* the call: its argument fqns, its locals, how it ended

vars == <<channels_arg, extract_result, title_set, window_title, plot_initialised,
          plot, plots_created, message_label, current_widget, x_label,
          series_initialised, series, point_phase, num_history_box, extract_calls,
          error_emitted, call_args, plot_call_args, raised,
          series_call, series_log, writebacks, log, entries, last_was_no_separator,
          menu_calls, shorten>>

main_vars == <<title_set, window_title, plot_initialised, plot, plots_created,
               message_label, current_widget, x_label, series_initialised, series,
               point_phase, num_history_box, extract_calls, error_emitted,
               call_args, plot_call_args, raised>>

extract_vars == <<channels_arg, extract_result>>

series_vars == <<series_call, series_log>>

writeback_vars == <<writebacks, log>>

menu_vars == <<entries, last_was_no_separator, menu_calls>>

\* the variables the main widget's data_changed and the extractor never touch
rest_vars == <<series_vars, writeback_vars, menu_vars, shorten>>

-----------------------------------------------------------------------------
(* Python values *)

Absent == <<>>

Some(v) == <<v>>

EmptyText == <<>>

JsonText(doc) == <<doc>>

json_loads(text) == text[1]

\* `not v` for an optional list or JSON text: None and the empty value are falsy
Falsy(opt) == opt = Absent \/ opt[1] = <<>>

\* `not v` for an optional str
FalsyStr(opt) == opt = Absent \/ opt[1] = ""

\* str(n) for the small counts the model formats into messages
Str(n) == IF n \in 0..9 THEN <<"0", "1", "2", "3", "4", "5", "6", "7", "8", "9">>[n + 1]
          ELSE "many"

Min(a, b) == IF a <= b THEN a ELSE b

Range(f) == {f[k] : k \in DOMAIN f}

\* all orders in which the elements of S can be iterated
Orders(S) == {o \in [1..Cardinality(S) -> S] : Range(o) = S}

-----------------------------------------------------------------------------
(* Bounds of the model *)

\* the longest list of axes a snapshot carries
MaxAxes == 2

\* the most points a snapshot carries, and the most a rolling buffer may hold
MaxPoints == 2

\* the largest history length the user sets
MaxHistory == 2

\* the cap on the counters of extractor calls and of addItem calls
MaxCount == 2

\* the most channels in a schema given to the extractor on its own
MaxChannels == 3

-----------------------------------------------------------------------------
(* _extract_scalar_channels *)

\* spec.get("display_hints", {}).get("error_bar_for", "")
error_bar_for(spec) ==
    IF "display_hints" \in DOMAIN spec
          /\ "error_bar_for" \in DOMAIN spec["display_hints"]
    THEN spec["display_hints"]["error_bar_for"]
    ELSE ""

IsScalarType(spec) == spec["type"] \in {"int", "float"}

\* scalar_names with "int" forgotten in the list of scalar types
scalar_names_float_only(channels) ==
    {name \in DOMAIN channels : channels[name]["type"] = "float"}

\* set(name for name, spec in channels.items() if spec["type"] in ["int", "float"])
scalar_names(channels) == {name \in DOMAIN channels : IsScalarType(channels[name])}

\* The ValueError of line 254; the message is the fixed text and the channel name.
ValueErrorFor(eb) ==
    [raised |-> "ValueError",
     message |-> <<"More than one set of error bars specified for channel", eb>>,
     data_names |-> {},
     error_bar_names |-> <<>>]

\* build_error_bar_names without the check of lines 253-254: a later declaration
\* silently replaces an earlier one
RECURSIVE build_error_bar_names_unchecked(_, _, _, _)
build_error_bar_names_unchecked(channels, order, i, acc) ==
    IF i > Len(order) THEN [conflict |-> Absent, map |-> acc]
    ELSE LET name == order[i]
             eb == error_bar_for(channels[name])
         IN IF eb = "" THEN build_error_bar_names_unchecked(channels, order, i + 1, acc)
            ELSE build_error_bar_names_unchecked(channels, order, i + 1,
                     [k \in (DOMAIN acc) \cup {eb} |-> IF k = eb THEN name ELSE acc[k]])

\* The loop of lines 248-255 from position i of the iteration order `order`,
\* with error_bar_names built so far in `acc`. Yields the finished dict, or the
\* target name the loop raised for.
RECURSIVE build_error_bar_names(_, _, _, _)
build_error_bar_names(channels, order, i, acc) ==
    IF i > Len(order) THEN [conflict |-> Absent, map |-> acc]
    ELSE LET name == order[i]
             eb == error_bar_for(channels[name])
         IN IF eb = "" THEN build_error_bar_names(channels, order, i + 1, acc)
            ELSE IF eb \in DOMAIN acc THEN [conflict |-> Some(eb), map |-> acc]
            ELSE build_error_bar_names(channels, order, i + 1,
                     [k \in (DOMAIN acc) \cup {eb} |-> IF k = eb THEN name ELSE acc[k]])

\* _extract_scalar_channels(channels); `order` is the order in which the for loop
\* happens to iterate the set data_names.
extract_scalar_channels(channels, order) ==
    LET data_names == scalar_names(channels)
        built == build_error_bar_names(channels, order, 1, <<>>)
    IN IF built.conflict # Absent THEN ValueErrorFor(built.conflict[1])
       ELSE [raised |-> "none",
             message |-> <<>>,
             data_names |-> data_names \ Range(built.map),
             error_bar_names |-> built.map]

-----------------------------------------------------------------------------
(* _XYSeries *)

\* _XYSeries.__init__; the graphics items are modelled by the data last given to
\* setData and by how often plot.addItem has been called with them.
XYSeries(data_name, error_bar_name, color, plot_left_to_right) ==
    [data_name |-> data_name,
     error_bar_name |-> error_bar_name,
     color |-> color,
     plot_left_to_right |-> plot_left_to_right,
     num_current_points |-> 0,
     data_item |-> [x |-> <<>>, y |-> <<>>],
     error_bar_item |-> [x |-> <<>>, y |-> <<>>, height |-> <<>>],
     data_item_added |-> 0,
     error_bar_item_added |-> 0]

\* data.get("ndscan.points.channel_" + name, (False, []))[1]
channel(data, name) ==
    IF name \in DOMAIN data.channel THEN data.channel[name] ELSE <<>>

\* Prefix without the slice: the whole of a
Prefix_whole(a, n) == a

\* a[:n]
Prefix(a, n) == SubSeq(a, 1, Min(n, Len(a)))

\* a[order], numpy indexing of an array by an array of (1-based) indices
Take(a, order) == [i \in 1..Len(order) |-> a[order[i]]]

\* The results np.argsort(x) may give: every permutation that sorts x.
argsort(x) ==
    {o \in Orders(1..Len(x)) : \A i \in 1..(Len(x) - 1) : x[o[i]] <= x[o[i + 1]]}

\* XYSeries_update without the early return of lines 41-42: every call renders
XYSeries_update_unconditional(s, x_data, data, order) ==
    LET y_data == channel(data, s.data_name)
        has_error_bar == s.error_bar_name # Absent
        y_err == IF has_error_bar THEN channel(data, s.error_bar_name[1]) ELSE <<>>
        n0 == Min(Len(x_data), Len(y_data))
        num_to_show == IF has_error_bar THEN Min(n0, Len(y_err)) ELSE n0
        first == s.num_current_points = 0
        xs == IF s.plot_left_to_right THEN Take(x_data, order) ELSE Prefix(x_data, num_to_show)
        ys == IF s.plot_left_to_right THEN Take(y_data, order) ELSE Prefix(y_data, num_to_show)
        hs == IF s.plot_left_to_right THEN Take(y_err, order)
              ELSE [i \in 1..num_to_show |-> 2 * y_err[i]]
    IN [s EXCEPT
          !.data_item = [x |-> xs, y |-> ys],
          !.data_item_added = IF first THEN @ + 1 ELSE @,
          !.error_bar_item =
              IF has_error_bar THEN [x |-> xs, y |-> ys, height |-> hs] ELSE @,
          !.error_bar_item_added = IF has_error_bar /\ first THEN @ + 1 ELSE @,
          !.num_current_points = num_to_show]

\* _XYSeries.update(x_data, data); `order` is the result of np.argsort (line 46),
\* used when plot_left_to_right is set.
XYSeries_update(s, x_data, data, order) ==
    LET y_data == channel(data, s.data_name)
        has_error_bar == s.error_bar_name # Absent
        y_err == IF has_error_bar THEN channel(data, s.error_bar_name[1]) ELSE <<>>
        n0 == Min(Len(x_data), Len(y_data))
        num_to_show == IF has_error_bar THEN Min(n0, Len(y_err)) ELSE n0
        first == s.num_current_points = 0
        xs == IF s.plot_left_to_right THEN Take(x_data, order) ELSE Prefix(x_data, num_to_show)
        ys == IF s.plot_left_to_right THEN Take(y_data, order) ELSE Prefix(y_data, num_to_show)
        hs == IF s.plot_left_to_right THEN Take(y_err, order)
              ELSE [i \in 1..num_to_show |-> 2 * y_err[i]]
    IN IF num_to_show = s.num_current_points THEN s
       ELSE [s EXCEPT
               !.data_item = [x |-> xs, y |-> ys],
               !.data_item_added = IF first THEN @ + 1 ELSE @,
               !.error_bar_item =
                   IF has_error_bar THEN [x |-> xs, y |-> ys, height |-> hs] ELSE @,
               !.error_bar_item_added = IF has_error_bar /\ first THEN @ + 1 ELSE @,
               !.num_current_points = num_to_show]

-----------------------------------------------------------------------------
(* _Rolling1DSeries *)

\* np.arange(-n, 0)
arange_neg(n) == [i \in 1..n |-> i - n - 1]

\* a[-k:]; as in Python, -0 is 0, so a[-0:] is all of a
Last(a, k) == IF k = 0 \/ k >= Len(a) THEN a ELSE SubSeq(a, Len(a) - k + 1, Len(a))

\* values[:, c]
Column(values, c) == [i \in 1..Len(values) |-> values[i][c]]

\* history_length_valid without the assert: any n is accepted
history_length_valid_any(n) == TRUE

\* Line 302: assert n > 0, "Invalid history length"
history_length_valid(n) == n > 0

\* Rolling1DSeries_set_history_length keeping the oldest n entries, values[:n, :]
Rolling1DSeries_set_history_length_keeps_oldest(s, n) ==
    [s EXCEPT !.x_indices = arange_neg(n),
              !.values = IF Len(@) > n THEN SubSeq(@, 1, n) ELSE @]

\* _Rolling1DSeries.set_history_length(n), for n > 0 (the assert of line 302)
Rolling1DSeries_set_history_length(s, n) ==
    [s EXCEPT !.x_indices = arange_neg(n),
              !.values = IF Len(@) > n THEN Last(@, n) ELSE @]

\* _Rolling1DSeries.__init__
Rolling1DSeries(data_name, error_bar_name, color, history_length) ==
    Rolling1DSeries_set_history_length(
        [data_name |-> data_name,
         error_bar_name |-> error_bar_name,
         color |-> color,
         values |-> <<>>,
         x_indices |-> <<>>,
         data_item |-> [x |-> <<>>, y |-> <<>>],
         error_bar_item |-> [x |-> <<>>, y |-> <<>>, height |-> <<>>],
         data_item_added |-> 0,
         error_bar_item_added |-> 0],
        history_length)

\* Whether _Rolling1DSeries.append(data) raises KeyError at line 274 or 276
Rolling1DSeries_append_raises(s, data) ==
    \/ s.data_name \notin DOMAIN data.point
    \/ s.error_bar_name # Absent /\ s.error_bar_name[1] \notin DOMAIN data.point

\* Rolling1DSeries_append overwriting the newest entry of a full buffer instead
\* of rolling the oldest one out
Rolling1DSeries_append_evicts_newest(s, data) ==
    LET has_error_bar == s.error_bar_name # Absent
        new_data == data.point[s.data_name]
        p == IF has_error_bar THEN <<new_data, 2 * data.point[s.error_bar_name[1]]>>
             ELSE <<new_data>>
        is_first == Len(s.values) = 0
        values == IF is_first THEN <<p>>
                  ELSE IF Len(s.values) = Len(s.x_indices)
                  THEN Append(SubSeq(s.values, 1, Len(s.values) - 1), p)
                  ELSE Append(s.values, p)
        num_to_show == Len(values)
        xs == Last(s.x_indices, num_to_show)
    IN [s EXCEPT
          !.values = values,
          !.data_item = [x |-> xs, y |-> Column(values, 1)],
          !.error_bar_item =
              IF has_error_bar
              THEN [x |-> xs, y |-> Column(values, 1), height |-> Column(values, 2)]
              ELSE @,
          !.data_item_added = IF is_first THEN @ + 1 ELSE @,
          !.error_bar_item_added = IF is_first /\ has_error_bar THEN @ + 1 ELSE @]

\* _Rolling1DSeries.append(data), when it does not raise
Rolling1DSeries_append(s, data) ==
    LET has_error_bar == s.error_bar_name # Absent
        new_data == data.point[s.data_name]
        p == IF has_error_bar THEN <<new_data, 2 * data.point[s.error_bar_name[1]]>>
             ELSE <<new_data>>
        is_first == Len(s.values) = 0
        values == IF is_first THEN <<p>>
                  ELSE IF Len(s.values) = Len(s.x_indices) THEN Append(Tail(s.values), p)
                  ELSE Append(s.values, p)
        num_to_show == Len(values)
        xs == Last(s.x_indices, num_to_show)
    IN [s EXCEPT
          !.values = values,
          !.data_item = [x |-> xs, y |-> Column(values, 1)],
          !.error_bar_item =
              IF has_error_bar
              THEN [x |-> xs, y |-> Column(values, 1), height |-> Column(values, 2)]
              ELSE @,
          !.data_item_added = IF is_first THEN @ + 1 ELSE @,
          !.error_bar_item_added = IF is_first /\ has_error_bar THEN @ + 1 ELSE @]

-----------------------------------------------------------------------------
(* _XYPlotWidget and _RollingPlotWidget *)

SERIES_COLORS ==
    <<"#d9d9d999", "#fdb46299", "#80b1d399", "#fb807299", "#bebeada99", "#ffffb399">>

\* The value num_history_box is given at line 365
DefaultHistoryLength == 100

\* d(name): data.get("ndscan." + name, (False, None))[1]. A snapshot is the
\* record of its recognised keys; the first component of each entry is never read.
d(data, name) == data[name]

\* The bottom axis label _XYPlotWidget.__init__ formats from the axis schema:
\* "<b>{} {}</b><i>({})</i>".format(description, unit, param)
XYLabel(x_schema) ==
    LET x_spec == x_schema["param"]["spec"]
        unit == IF "unit" \in DOMAIN x_spec THEN x_spec["unit"] ELSE ""
        path == IF x_schema["path"] = "" THEN "/" ELSE x_schema["path"]
    IN [description |-> x_schema["param"]["description"],
        unit |-> IF unit = "" THEN <<>> ELSE <<"/ ", unit, " ">>,
        param |-> <<x_schema["param"]["fqn"], "@", path>>]

\* _XYPlotWidget.__init__(x_schema, set_dataset)
XYPlotWidget(x_schema) ==
    [x_label |-> Some(XYLabel(x_schema)),
     series_initialised |-> FALSE,
     series |-> <<>>,
     point_phase |-> FALSE,
     num_history_box |-> 0,
     extract_calls |-> 0,
     error_emitted |-> <<>>]

\* _RollingPlotWidget.__init__()
RollingPlotWidget ==
    [x_label |-> Absent,
     series_initialised |-> FALSE,
     series |-> <<>>,
     point_phase |-> FALSE,
     num_history_box |-> DefaultHistoryLength,
     extract_calls |-> 0,
     error_emitted |-> <<>>]

\* error_bar_names.get(name, None)
get_error_bar_name(error_bar_names, name) ==
    IF name \in DOMAIN error_bar_names THEN Some(error_bar_names[name]) ELSE Absent

\* series_color without the index: every series gets the first colour
series_color_first(i) == SERIES_COLORS[1]

\* SERIES_COLORS[i % len(SERIES_COLORS)] for the i-th (from 0) series
series_color(i) == SERIES_COLORS[(i % Len(SERIES_COLORS)) + 1]

\* make_series with the X-Y series made to plot left to right (the last
\* argument of line 197 True)
make_series_left_to_right(kind, extracted, sorder, history_length) ==
    [i \in 1..Len(sorder) |->
        LET name == sorder[i]
            error_bar_name == get_error_bar_name(extracted.error_bar_names, name)
        IN IF kind = "xy"
           THEN XYSeries(name, error_bar_name, series_color(i - 1), TRUE)
           ELSE Rolling1DSeries(name, error_bar_name, series_color(i - 1),
                                history_length)]

\* The loops of lines 190-197 and 339-347: one series per data name, in the
\* order `sorder` in which the set data_names happens to be iterated.
make_series(kind, extracted, sorder, history_length) ==
    [i \in 1..Len(sorder) |->
        LET name == sorder[i]
            error_bar_name == get_error_bar_name(extracted.error_bar_names, name)
        IN IF kind = "xy"
           THEN XYSeries(name, error_bar_name, series_color(i - 1), FALSE)
           ELSE Rolling1DSeries(name, error_bar_name, series_color(i - 1),
                                history_length)]

\* What the except clause of lines 187-188 / 336-337 does with the ValueError.
\* It evaluates self.emit.error(str(e)); the widget has no attribute `emit`
\* (the signal is self.error), so the lookup raises inside the handler and that
\* exception leaves data_changed. Nothing is emitted.
handle_extract_failure(p, extracted) ==
    [p |-> p, raised |-> "AttributeError", returned |-> TRUE]

\* Lines 178-199 / 327-349: the lazy construction of the series. `returned`
\* says that data_changed is left here (by return or by an exception).
init_series(kind, p, data, eorder, sorder) ==
    IF p.series_initialised THEN [p |-> p, raised |-> "none", returned |-> FALSE]
    ELSE IF Falsy(d(data, "channels")) THEN [p |-> p, raised |-> "none", returned |-> TRUE]
    ELSE LET channels == json_loads(d(data, "channels")[1])
             extracted == extract_scalar_channels(channels, eorder)
             called == [p EXCEPT !.extract_calls = @ + 1]
         IN IF extracted.raised # "none" THEN handle_extract_failure(called, extracted)
            ELSE [p |-> [called EXCEPT
                           !.series = @ \o make_series(kind, extracted, sorder,
                                                       p.num_history_box),
                           !.series_initialised = TRUE],
                  raised |-> "none",
                  returned |-> FALSE]

\* The iteration orders the call may meet: of the scalar channels in the
\* extractor, and of the data names when the series are made.
extract_orders(p, data) ==
    IF p.series_initialised \/ Falsy(d(data, "channels")) THEN {<<>>}
    ELSE Orders(scalar_names(json_loads(d(data, "channels")[1])))

series_orders(p, data, eorder) ==
    IF p.series_initialised \/ Falsy(d(data, "channels")) THEN {<<>>}
    ELSE Orders(extract_scalar_channels(json_loads(d(data, "channels")[1]),
                                        eorder).data_names)

\* _XYPlotWidget.data_changed(data, mods)
XYPlotWidget_data_changed(p, data, eorder, sorder) ==
    LET init == init_series("xy", p, data, eorder, sorder)
        x_data == d(data, "axis_0")
    IN IF init.returned THEN [p |-> init.p, raised |-> init.raised]
       ELSE IF Falsy(x_data) THEN [p |-> init.p, raised |-> "none"]
       ELSE [p |-> [init.p EXCEPT
                      !.series = [i \in 1..Len(@) |->
                                     XYSeries_update(@[i], x_data[1], data, <<>>)]],
             raised |-> "none"]

\* The loop `for s in self.series: s.append(data)` from position i: the series
\* before the first one whose append raises have been appended to.
RECURSIVE append_all(_, _, _)
append_all(ss, data, i) ==
    IF i > Len(ss) THEN [series |-> ss, raised |-> "none"]
    ELSE IF Rolling1DSeries_append_raises(ss[i], data)
    THEN [series |-> ss, raised |-> "KeyError"]
    ELSE append_all([ss EXCEPT ![i] = Rolling1DSeries_append(ss[i], data)], data, i + 1)

\* `phase is not None and phase != self.point_phase`
is_new_phase(phase, current) == phase # Absent /\ phase[1] # current

\* _RollingPlotWidget.data_changed(data, mods)
RollingPlotWidget_data_changed(p, data, eorder, sorder) ==
    LET init == init_series("rolling", p, data, eorder, sorder)
        phase == d(data, "point_phase")
        appended == append_all(init.p.series, data, 1)
    IN IF init.returned THEN [p |-> init.p, raised |-> init.raised]
       ELSE IF ~is_new_phase(phase, init.p.point_phase) THEN [p |-> init.p, raised |-> "none"]
       ELSE IF appended.raised # "none"
       THEN [p |-> [init.p EXCEPT !.series = appended.series], raised |-> appended.raised]
       ELSE [p |-> [init.p EXCEPT !.series = appended.series, !.point_phase = phase[1]],
             raised |-> "none"]

\* _RollingPlotWidget.set_history_length(n)
RollingPlotWidget_set_history_length(p, n) ==
    [p EXCEPT !.series = [i \in 1..Len(@) |-> Rolling1DSeries_set_history_length(@[i], n)]]

-----------------------------------------------------------------------------
(* _MainWidget *)

\* The label text set in __init__ (lines 403-404); the rid is left as "{}".
WaitingMessage == <<"Waiting for ndscan metadata for rid {}...">>

\* "{}-dimensional scans are not yet supported".format(len(axes))
UnsupportedMessage(n) == <<Str(n), "-dimensional scans are not yet supported">>

\* The plot widget as the record the widget operators work on
CurPlot ==
    [x_label |-> x_label,
     series_initialised |-> series_initialised,
     series |-> series,
     point_phase |-> point_phase,
     num_history_box |-> num_history_box,
     extract_calls |-> extract_calls,
     error_emitted |-> error_emitted]

SetPlot(p) ==
    /\ x_label' = p.x_label
    /\ series_initialised' = p.series_initialised
    /\ series' = p.series
    /\ point_phase' = p.point_phase
    /\ num_history_box' = p.num_history_box
    /\ extract_calls' = p.extract_calls
    /\ error_emitted' = p.error_emitted

plot_vars == <<x_label, series_initialised, series, point_phase, num_history_box,
               extract_calls, error_emitted>>

\* plot_for_axes with the bound of the X-Y case off by one
plot_for_axes_two_is_xy(n) ==
    IF n = 0 THEN "rolling" ELSE IF n <= 2 THEN "xy" ELSE "unsupported"

\* Lines 427-435: which widget len(axes) selects
plot_for_axes(n) ==
    IF n = 0 THEN "rolling" ELSE IF n = 1 THEN "xy" ELSE "unsupported"

\* title_needed with the gate left out: the title is never waited for
title_needed_never(is_set) == FALSE

\* Line 415: the title is looked for only while it has not been set
title_needed(is_set) == ~is_set

\* plot_needed without the plot_initialised flag: every call chooses a plot anew
plot_needed_always(initialised) == TRUE

\* Line 422: the plot is chosen only while none has been initialised
plot_needed(initialised) == ~initialised

\* Line 443: the arguments self.plot.data_changed is called with
forwarded_args(data, mods) == <<data, mods>>

\* The bounds that keep the counters and buffers of the model finite
WithinBounds(p) ==
    /\ p.extract_calls <= MaxCount
    /\ \A i \in 1..Len(p.series) :
          /\ p.series[i].data_item_added <= MaxCount
          /\ "values" \in DOMAIN p.series[i] => Len(p.series[i].values) <= MaxPoints

\* Line 443, self.plot.data_changed(data, mods), on the widget `kind` in state p
forward(kind, p, data, mods) ==
    LET args == forwarded_args(data, mods)
    IN \E eorder \in extract_orders(p, args[1]) :
         \E sorder \in series_orders(p, args[1], eorder) :
           LET r == IF kind = "xy"
                    THEN XYPlotWidget_data_changed(p, args[1], eorder, sorder)
                    ELSE RollingPlotWidget_data_changed(p, args[1], eorder, sorder)
           IN /\ WithinBounds(r.p)
              /\ SetPlot(r.p)
              /\ raised' = r.raised
              /\ plot_call_args' = Some(args)

\* _MainWidget.data_changed(data, mods)
MainWidget_data_changed(data, mods) ==
    LET fqn == d(data, "fragment_fqn")
        axes_json == d(data, "axes")
    IN
    /\ call_args' = Some(<<data, mods>>)
    /\ IF title_needed(title_set) /\ FalsyStr(fqn)
       THEN /\ raised' = "none"
            /\ UNCHANGED <<title_set, window_title, plot_initialised, plot,
                           plots_created, message_label, current_widget,
                           plot_vars, plot_call_args>>
       ELSE
         /\ title_set' = TRUE
         /\ window_title' = IF title_needed(title_set) THEN <<fqn[1], " - ndscan">>
                            ELSE window_title
         /\ IF ~plot_needed(plot_initialised)
            THEN /\ UNCHANGED <<plot_initialised, plot, plots_created, message_label,
                                current_widget>>
                 /\ forward(plot, CurPlot, data, mods)
            ELSE IF Falsy(axes_json)
            THEN /\ raised' = "none"
                 /\ UNCHANGED <<plot_initialised, plot, plots_created, message_label,
                                current_widget, plot_vars, plot_call_args>>
            ELSE LET axes == json_loads(axes_json[1])
                     kind == plot_for_axes(Len(axes))
                 IN IF kind = "unsupported"
                    THEN /\ message_label' = UnsupportedMessage(Len(axes))
                         /\ current_widget' = "message_label"
                         /\ raised' = "none"
                         /\ UNCHANGED <<plot_initialised, plot, plots_created,
                                        plot_vars, plot_call_args>>
                    ELSE /\ plot' = kind
                         /\ plots_created' = plots_created + 1
                         /\ current_widget' = "plot"
                         /\ plot_initialised' = TRUE
                         /\ UNCHANGED message_label
                         /\ forward(kind,
                                    IF kind = "xy" THEN XYPlotWidget(axes[1])
                                    ELSE RollingPlotWidget,
                                    data, mods)

\* _MainWidget._show_error(message), the slot connected to the plot's error signal
MainWidget_show_error(message) ==
    /\ message_label' = <<"Error: ">> \o message
    /\ current_widget' = "message_label"

-----------------------------------------------------------------------------
(* The snapshots delivered *)

AxisA ==
    [param |-> [fqn |-> "pkg.Frag.freq", description |-> "Frequency",
                spec |-> [scale |-> 1000, unit |-> "kHz"]],
     path |-> ""]

AxisB ==
    [param |-> [fqn |-> "pkg.Frag.time", description |-> "Time",
                spec |-> [scale |-> 1]],
     path |-> "child"]

AxesList(n) == [i \in 1..n |-> IF i % 2 = 1 THEN AxisA ELSE AxisB]

\* The channels of the extractor example: A with error bars A_err, B, and the
\* non-numeric C
SchemaGood ==
    [A |-> [type |-> "float"],
     A_err |-> [type |-> "float", display_hints |-> [error_bar_for |-> "A"]],
     B |-> [type |-> "int", display_hints |-> [priority |-> "1"]],
     C |-> [type |-> "string"]]

\* Two channels that both claim to be the error bars of A
SchemaConflict ==
    [A |-> [type |-> "float"],
     A_err |-> [type |-> "float", display_hints |-> [error_bar_for |-> "A"]],
     A_err2 |-> [type |-> "float", display_hints |-> [error_bar_for |-> "A"]]]

NoPoints ==
    [axis_0 |-> Absent, channel |-> <<>>, point_phase |-> Absent, point |-> <<>>]

\* The i-th scan point arrives out of x order
XValue(i) == (7 - 3 * i) % 5

\* X-Y points: nx points of the axis and of channels A and B, ne of A_err
XYPoints(nx, ne) ==
    [axis_0 |-> Some([i \in 1..nx |-> XValue(i)]),
     channel |-> [A |-> [i \in 1..nx |-> 10 * XValue(i)],
                  A_err |-> [i \in 1..ne |-> i],
                  B |-> [i \in 1..nx |-> i]],
     point_phase |-> Absent,
     point |-> <<>>]

\* A rolling point; the point of channel B may not have been written yet
RollingPoints(phase, has_b) ==
    [axis_0 |-> Absent,
     channel |-> <<>>,
     point_phase |-> Some(phase),
     point |-> IF has_b
               THEN [A |-> IF phase THEN 1 ELSE 2, A_err |-> 1, B |-> 5]
               ELSE [A |-> IF phase THEN 1 ELSE 2, A_err |-> 1]]

Snapshot(fqn, axes, channels, points) ==
    [fragment_fqn |-> fqn, axes |-> axes, channels |-> channels,
     axis_0 |-> points.axis_0, channel |-> points.channel,
     point_phase |-> points.point_phase, point |-> points.point]

\* Snapshots from the start of a scan: the title and the axes come (and go)
\* before the channels are known, then the channels are delivered
MetaSnapshots ==
    {Snapshot(fqn, axes, Absent, NoPoints) :
        fqn \in {Absent, Some(""), Some("pkg.Frag")},
        axes \in {Absent, Some(EmptyText)}
                 \cup {Some(JsonText(AxesList(n))) : n \in 0..MaxAxes}}
    \cup
    {Snapshot(Some("pkg.Frag"), Some(JsonText(<<AxisB>>)), Absent, NoPoints),
     Snapshot(Some("pkg.Frag"), Absent, Some(EmptyText), NoPoints)}
    \cup
    {Snapshot(Some("pkg.Frag"), Some(JsonText(AxesList(n))), Some(JsonText(schema)),
              NoPoints) : n \in 0..1, schema \in {SchemaGood, SchemaConflict}}

\* Snapshots of a running scan: all metadata and some points; the error bars
\* of the newest point may not have been written yet
PointSnapshots ==
    {Snapshot(Some("pkg.Frag"), Some(JsonText(AxesList(1))), Some(JsonText(SchemaGood)),
              XYPoints(nx, nx - lag)) : nx \in 1..MaxPoints, lag \in 0..1}
    \cup
    {Snapshot(Some("pkg.Frag"), Some(JsonText(AxesList(0))), Some(JsonText(SchemaGood)),
              RollingPoints(phase, TRUE)) : phase \in BOOLEAN}

Snapshots == MetaSnapshots \cup PointSnapshots

\* The modification lists delivered along with a snapshot
Mods == {<<>>, <<"setitem">>}

-----------------------------------------------------------------------------
(* The applet: snapshots delivered to the main widget, and the user changing *)
(* the history length in the rolling plot's context menu                     *)

NotRun == [raised |-> "not run", message |-> <<>>, data_names |-> {},
           error_bar_names |-> <<>>]

MainInit ==
    /\ title_set = FALSE
    /\ window_title = <<"ndscan plot">>
    /\ plot_initialised = FALSE
    /\ plot = "none"
    /\ plots_created = 0
    /\ message_label = WaitingMessage
    /\ current_widget = "message_label"
    /\ x_label = Absent
    /\ series_initialised = FALSE
    /\ series = <<>>
    /\ point_phase = FALSE
    /\ num_history_box = 0
    /\ extract_calls = 0
    /\ error_emitted = <<>>
    /\ call_args = Absent
    /\ plot_call_args = Absent
    /\ raised = "none"

\* No call made on a series, no write-back started, and the ContextMenuBuilder
\* as __init__ leaves it
RestInit ==
    /\ series_call = <<>>
    /\ series_log = <<>>
    /\ writebacks = <<>>
    /\ log = <<>>
    /\ entries = <<>>
    /\ last_was_no_separator = FALSE
    /\ menu_calls = <<>>
    /\ shorten = <<>>

Init ==
    /\ MainInit
    /\ RestInit
    /\ channels_arg = <<>>
    /\ extract_result = NotRun

\* The applet delivers a snapshot
DataChanged ==
    /\ \E data \in Snapshots, mods \in Mods : MainWidget_data_changed(data, mods)
    /\ UNCHANGED <<extract_vars, rest_vars>>

\* The user sets the spin box to n: valueChanged calls set_history_length(n)
SetHistoryLength ==
    /\ plot = "rolling"
    /\ \E n \in 1..MaxHistory :
         /\ n # num_history_box
         /\ SetPlot([RollingPlotWidget_set_history_length(CurPlot, n)
                        EXCEPT !.num_history_box = n])
    /\ UNCHANGED <<title_set, window_title, plot_initialised, plot, plots_created,
                   message_label, current_widget, call_args, plot_call_args, raised>>
    /\ UNCHANGED <<extract_vars, rest_vars>>

Next == DataChanged \/ SetHistoryLength

Spec == Init /\ [][Next]_vars

-----------------------------------------------------------------------------
(* The extractor on its own: one call on a schema of up to MaxChannels channels *)

ChannelNamePool == <<"A", "B", "C", "D", "E", "F">>

ChannelNames == {ChannelNamePool[i] : i \in 1..MaxChannels}

\* What error_bar_for may name: a channel of the pool or the missing channel Z
Targets == ChannelNames \cup {"Z"}

\* The channel specs tried: float and string channels with every form of
\* display hints, and a plain int channel
ChannelSpecs ==
    {[type |-> t] : t \in {"int", "float", "string"}}
    \cup {[type |-> t, display_hints |-> [priority |-> "1"]] : t \in {"float", "string"}}
    \cup {[type |-> t, display_hints |-> [error_bar_for |-> e]] :
             t \in {"float", "string"}, e \in {""} \cup Targets}

ChannelMappings == UNION {[S -> ChannelSpecs] : S \in SUBSET ChannelNames}

ExtractInit ==
    /\ MainInit
    /\ RestInit
    /\ channels_arg \in ChannelMappings
    /\ extract_result = NotRun

\* _extract_scalar_channels(channels_arg) is called
Extract ==
    /\ extract_result.raised = "not run"
    /\ \E order \in Orders(scalar_names(channels_arg)) :
         extract_result' = extract_scalar_channels(channels_arg, order)
    /\ UNCHANGED <<channels_arg, main_vars, rest_vars>>

ExtractNext == Extract

SpecExtract == ExtractInit /\ [][ExtractNext]_vars

-----------------------------------------------------------------------------
(* Properties of the extractor (checked under SpecExtract) *)

ExtractOk == extract_result.raised = "none"

\* the declaration of channel c of channels_arg, "" if it makes none
Declared(c) == error_bar_for(channels_arg[c])

Numeric(c) == channels_arg[c]["type"] \in {"int", "float"}

\* a dict as the set of its (key, value) pairs
Pairs(m) == {<<k, m[k]>> : k \in DOMAIN m}

\* C8 as stated: on success the data channels are the int/float channels that
\* declare no error_bar_for, and the mapping holds target -> source for exactly
\* the channels (of any type) that declare error_bar_for = target.
C8_Original ==
    ExtractOk =>
        /\ extract_result.data_names =
               {c \in DOMAIN channels_arg : Numeric(c) /\ Declared(c) = ""}
        /\ Pairs(extract_result.error_bar_names) =
               {<<Declared(c), c>> : c \in {c \in DOMAIN channels_arg : Declared(c) # ""}}

\* the example of C8: {A: float, A_err: float (error_bar_for=A), B: int, C: string}
C8_Example ==
    \A order \in Orders(scalar_names(SchemaGood)) :
        LET r == extract_scalar_channels(SchemaGood, order)
        IN /\ r.raised = "none"
           /\ r.data_names = {"A", "B"}
           /\ Pairs(r.error_bar_names) = {<<"A", "A_err">>}

\* C8, amended: on success the data channels are the int/float channels that
\* declare no error_bar_for, and the mapping holds target -> source for exactly
\* the int/float channels that declare error_bar_for = target (a declaration made
\* by a channel of another type is ignored); the example yields {A, B} and
\* {A -> A_err}.
C8_ExtractorPartition ==
    /\ C8_Example
    /\ ExtractOk =>
          /\ extract_result.data_names =
                 {c \in DOMAIN channels_arg : Numeric(c) /\ Declared(c) = ""}
          /\ Pairs(extract_result.error_bar_names) =
                 {<<Declared(c), c>> :
                     c \in {c \in DOMAIN channels_arg : Numeric(c) /\ Declared(c) # ""}}

\* A successful call that returned data channels and error bars while a
\* non-numeric channel also declared error bars
C8_Witness ==
    /\ ExtractOk
    /\ extract_result.data_names # {}
    /\ DOMAIN extract_result.error_bar_names # {}
    /\ \E c \in DOMAIN channels_arg : ~Numeric(c) /\ Declared(c) # ""

ExtractDone == extract_result.raised # "not run"

ConflictMessage == "More than one set of error bars specified for channel"

\* C9 as stated: whenever two distinct channels, of whatever type, declare
\* error_bar_for the same target, the call fails with an error naming that target.
C9_Original ==
    ExtractDone =>
        \A c1, c2 \in DOMAIN channels_arg :
            (c1 # c2 /\ Declared(c1) # "" /\ Declared(c1) = Declared(c2)) =>
                /\ extract_result.raised = "ValueError"
                /\ extract_result.message = <<ConflictMessage, Declared(c1)>>

\* the targets that two distinct int/float channels both declare
ConflictTargets ==
    {Declared(c1) : c1 \in {c \in DOMAIN channels_arg :
        /\ Numeric(c)
        /\ Declared(c) # ""
        /\ \E c2 \in DOMAIN channels_arg \ {c} : Numeric(c2) /\ Declared(c2) = Declared(c)}}

\* C9, amended: whenever two distinct int/float channels declare error_bar_for
\* the same target, the call fails with a ValueError whose message names a target
\* that two int/float channels both declare, and returns no result; declarations
\* made by channels of other types do not count.
C9_ExtractorConflict ==
    (ExtractDone /\ ConflictTargets # {}) =>
        /\ extract_result.raised = "ValueError"
        /\ extract_result.message[1] = ConflictMessage
        /\ extract_result.message[2] \in ConflictTargets
        /\ extract_result.data_names = {}
        /\ DOMAIN extract_result.error_bar_names = {}

\* A failed call on a schema in which a string channel declares the same target
\* as the two conflicting numeric channels
C9_Witness ==
    /\ extract_result.raised = "ValueError"
    /\ \E c \in DOMAIN channels_arg :
          ~Numeric(c) /\ Declared(c) = extract_result.message[2]

\* C10 as stated: in every successful result each key of the error-bar mapping
\* is a returned data channel and no value of it is.
C10_Original ==
    ExtractOk =>
        /\ DOMAIN extract_result.error_bar_names \subseteq extract_result.data_names
        /\ Range(extract_result.error_bar_names) \cap extract_result.data_names = {}

-----------------------------------------------------------------------------
(* Properties of the main widget and the plot widgets (checked under Spec) *)

\* the snapshot of the last call (of the call being made, when primed)
CallData == call_args[1][1]

UnsupportedText == "-dimensional scans are not yet supported"

\* C1: while no plot has been initialised, a call that gets past the title and
\* carries a non-empty axes blob decides by the number of axes: 0 makes the
\* rolling plot, 1 makes the X-Y plot labelled from that axis, 2 or more makes
\* no plot and shows the message label with the count in its text.
C1_ModeByAxisCount ==
    [][(/\ ~plot_initialised
        /\ call_args' # Absent
        /\ title_set \/ ~FalsyStr(CallData'.fragment_fqn)
        /\ ~Falsy(CallData'.axes))
       => LET axes == CallData'.axes[1][1]
              n == Len(axes)
          IN /\ n = 0 => /\ plot' = "rolling"
                         /\ plot_initialised'
                         /\ plots_created' = plots_created + 1
                         /\ current_widget' = "plot"
             /\ n = 1 => /\ plot' = "xy"
                         /\ x_label' = Some(XYLabel(axes[1]))
                         /\ plot_initialised'
                         /\ plots_created' = plots_created + 1
                         /\ current_widget' = "plot"
             /\ n >= 2 => /\ plot' = plot
                          /\ ~plot_initialised'
                          /\ plots_created' = plots_created
                          /\ current_widget' = "message_label"
                          /\ message_label' = <<Str(n), UnsupportedText>>
      ]_vars

\* An X-Y plot made for the axis descriptor B
C1_Witness ==
    plot = "xy" /\ plots_created = 1 /\ x_label = Some(XYLabel(AxisB))

\* C2: at most one plot widget is ever constructed; once there is one it stays
\* the same; and every call from the one that constructs it on hands it exactly
\* the (data, mods) the main widget was called with. Before, nothing is forwarded.
C2_SinglePlotForwarded ==
    [][/\ plots_created' <= 1
       /\ plot # "none" => /\ plot' = plot
                           /\ plots_created' = plots_created
                           /\ x_label' = x_label
                           /\ plot_initialised'
       /\ plot_initialised' => plot_call_args' = call_args'
       /\ ~plot_initialised' => plot_call_args' = Absent /\ plot' = "none"
      ]_vars

\* The X-Y plot exists and has just been handed a later snapshot whose axes
\* blob asks for the rolling plot
C2_Witness ==
    /\ plot = "xy"
    /\ plots_created = 1
    /\ call_args # Absent
    /\ CallData.axes = Some(JsonText(AxesList(0)))
    /\ plot_call_args = call_args

\* the state in which the "not yet supported" message has been put up and there
\* is no plot
Unsupported ==
    /\ ~plot_initialised
    /\ Len(message_label) = 2
    /\ message_label[2] = UnsupportedText

\* C3 as stated: once 2 or more axes have been seen, no later call makes a plot
\* or forwards to one, and the message stays displayed.
C3_Original ==
    [][Unsupported => /\ Unsupported'
                      /\ plot' = "none"
                      /\ plot_call_args' = Absent
                      /\ current_widget' = "message_label"
      ]_vars

\* C4: until a call has delivered a non-empty fragment_fqn nothing but the title
\* is looked at: a call without it changes nothing, and no plot, no forwarding
\* and no message exist while the title is unset. The first non-empty
\* fragment_fqn sets the title; from then on the title is kept and a snapshot
\* needs no fragment_fqn for its axes to be acted on.
C4_TitleGate ==
    [][/\ (~title_set /\ call_args' # Absent /\ FalsyStr(CallData'.fragment_fqn))
           => UNCHANGED <<title_set, window_title, plot_initialised, plot,
                          plots_created, message_label, current_widget, plot_vars,
                          plot_call_args>>
       /\ (~title_set /\ call_args' # Absent /\ ~FalsyStr(CallData'.fragment_fqn))
           => /\ title_set'
              /\ window_title' = <<CallData'.fragment_fqn[1], " - ndscan">>
       /\ ~title_set' => /\ plot' = "none"
                         /\ ~plot_initialised'
                         /\ plots_created' = 0
                         /\ message_label' = WaitingMessage
                         /\ current_widget' = "message_label"
                         /\ plot_call_args' = Absent
       /\ title_set => title_set' /\ window_title' = window_title
       /\ (/\ title_set
           /\ ~plot_initialised
           /\ call_args' # Absent
           /\ ~Falsy(CallData'.axes)
           /\ Len(CallData'.axes[1][1]) <= 1)
           => plot_initialised'
      ]_vars

\* A call that carried axes but no title, and left the title unset
C4_Witness ==
    /\ ~title_set
    /\ call_args # Absent
    /\ ~Falsy(CallData.axes)

\* C5 as stated: a plot widget runs the extractor exactly once, and owns no
\* series before it has.
C5_Original ==
    /\ extract_calls <= 1
    /\ extract_calls = 0 => series = <<>> /\ ~series_initialised

\* the plot widget has run the extractor and every run has failed
ExtractorFailed == extract_calls > 0 /\ ~series_initialised

\* C6 as stated: when the extractor fails, data_changed returns normally, the
\* error signal has carried the message, and the main widget shows "Error: ..."
\* in place of the plot.
C6_Original ==
    ExtractorFailed =>
        /\ raised = "none"
        /\ error_emitted # <<>>
        /\ current_widget = "message_label"
        /\ message_label[1] = "Error: "

\* C7 as stated: after an extractor failure the plot widget never constructs a
\* series, whatever later snapshots hold.
C7_Original ==
    [][ExtractorFailed => series' = <<>> /\ ~series_initialised']_vars

-----------------------------------------------------------------------------
(* An _XYSeries on its own: any sequence of update calls on one series,     *)
(* with or without an error bar channel, sorting or not                     *)

\* the most samples of the axis and of a channel a snapshot carries here
MaxSamples == 2

\* the x values of the samples
XValues == {1, 2}

XSequences == UNION {[1..n -> XValues] : n \in 0..MaxSamples}

\* A snapshot with ny points of channel Y and ne of Y_err; sample i has
\* y = 10 * i and error i, so that a rendered point tells its sample
XYData(ny, ne) ==
    [axis_0 |-> Absent,
     channel |-> [Y |-> [i \in 1..ny |-> 10 * i], Y_err |-> [i \in 1..ne |-> i]],
     point_phase |-> Absent,
     point |-> <<>>]

\* the snapshots given to update: the error bars may lag the points by one, and
\* the channels may be missing altogether
XYDatas ==
    {XYData(ny, ne) : ny \in 0..MaxSamples, ne \in 0..MaxSamples} \cup {NoPoints}

\* Lines 34-39: the number of points update decides to show
XYSeries_num_to_show(s, x_data, data) ==
    LET n0 == Min(Len(x_data), Len(channel(data, s.data_name)))
    IN IF s.error_bar_name # Absent
       THEN Min(n0, Len(channel(data, s.error_bar_name[1])))
       ELSE n0

\* The results np.argsort(x_data[:num_to_show]) may give in this call (line 46);
\* the call does not sort unless plot_left_to_right is set
update_orders(s, x_data, data) ==
    IF s.plot_left_to_right
    THEN argsort(SubSeq(x_data, 1, XYSeries_num_to_show(s, x_data, data)))
    ELSE {<<>>}

\* the state of the main widget before any call, owning the series ss
MainInitWith(ss) ==
    /\ title_set = FALSE
    /\ window_title = <<"ndscan plot">>
    /\ plot_initialised = FALSE
    /\ plot = "none"
    /\ plots_created = 0
    /\ message_label = WaitingMessage
    /\ current_widget = "message_label"
    /\ x_label = Absent
    /\ series_initialised = FALSE
    /\ series = ss
    /\ point_phase = FALSE
    /\ num_history_box = 0
    /\ extract_calls = 0
    /\ error_emitted = <<>>
    /\ call_args = Absent
    /\ plot_call_args = Absent
    /\ raised = "none"

\* every way of constructing the series
XYInit ==
    /\ \E error_bar_name \in {Absent, Some("Y_err")}, plot_left_to_right \in BOOLEAN :
          MainInitWith(<<XYSeries("Y", error_bar_name, series_color(0),
                                  plot_left_to_right)>>)
    /\ RestInit
    /\ channels_arg = <<>>
    /\ extract_result = NotRun

\* update(x_data, data) is called on the series
XYUpdate ==
    /\ \E x_data \in XSequences, data \in XYDatas :
         \E order \in update_orders(series[1], x_data, data) :
           LET s == XYSeries_update(series[1], x_data, data, order)
           IN /\ s.data_item_added <= MaxCount
              /\ series' = <<s>>
              /\ series_call' = <<"update", x_data, data>>
    /\ UNCHANGED <<title_set, window_title, plot_initialised, plot, plots_created,
                   message_label, current_widget, x_label, series_initialised,
                   point_phase, num_history_box, extract_calls, error_emitted,
                   call_args, plot_call_args, raised>>
    /\ UNCHANGED <<extract_vars, series_log, writeback_vars, menu_vars, shorten>>

XYNext == XYUpdate

SpecXY == XYInit /\ [][XYNext]_vars

-----------------------------------------------------------------------------
(* Properties of _XYSeries.update (checked under SpecXY) *)

\* the x_data and data of the update call just made (of the call being made,
\* when primed)
UpdateX == series_call[2]

UpdateData == series_call[3]

\* whether update(x_data, data) on series s, sorting by order, changes anything
UpdateIsNoOp(s, x_data, data) ==
    \A order \in update_orders(s, x_data, data) :
        XYSeries_update(s, x_data, data, order) = s

\* C11: an update whose computed n equals the count already rendered changes
\* nothing of the series (the count, the data of both items, what is attached);
\* so a second update with the arguments of the previous one is a no-op, both
\* as the next call made and as any call that could be made from here.
C11_UpdateIdempotent ==
    [][/\ (/\ series_call' # <<>>
           /\ XYSeries_num_to_show(series[1], UpdateX', UpdateData')
                 = series[1].num_current_points)
          => series' = series
       /\ (series_call # <<>> /\ series_call' = series_call) => series' = series
       /\ series_call' # <<>> => UpdateIsNoOp(series'[1], UpdateX', UpdateData')
      ]_vars

\* Two points are rendered and the last update, which brought two points with
\* other x values, was therefore skipped
C11_Witness ==
    /\ series_call # <<>>
    /\ ~series[1].plot_left_to_right
    /\ series[1].num_current_points = 2
    /\ XYSeries_num_to_show(series[1], UpdateX, UpdateData) = 2
    /\ SubSeq(UpdateX, 1, 2) # series[1].data_item.x

\* the height an _XYSeries gives the error bar of a sample of error e: doubled
\* by the branch that does not sort (line 65), not by the branch that sorts
\* (line 55)
XYHeight(s, e) == IF s.plot_left_to_right THEN e ELSE 2 * e

\* the points of item are the samples of index 1..n of (x_data, data), each once,
\* every rendered x together with the y (and the error) of its sample
RendersSamples(s, item, n, x_data, data, with_error) ==
    /\ Len(item.x) = n
    /\ Len(item.y) = n
    /\ \E perm \in Orders(1..n) :
          \A i \in 1..n :
             /\ item.x[i] = x_data[perm[i]]
             /\ item.y[i] = channel(data, s.data_name)[perm[i]]
             /\ with_error =>
                   /\ Len(item.height) = n
                   /\ item.height[i] =
                         XYHeight(s, channel(data, s.error_bar_name[1])[perm[i]])

\* C13: an update that is not a no-op records n = min(len(x), len(y), and
\* len(error) when an error channel is configured) as the rendered count, and
\* the trace (and the error bars) it renders are exactly the samples of index
\* below n, each once, every x with the y and the error of its own sample.
C13_UpdateRendersPrefix ==
    [][(/\ series_call' # <<>>
        /\ XYSeries_num_to_show(series[1], UpdateX', UpdateData')
              # series[1].num_current_points)
       => LET s == series'[1]
              n == XYSeries_num_to_show(series[1], UpdateX', UpdateData')
          IN /\ s.num_current_points = n
             /\ RendersSamples(s, s.data_item, n, UpdateX', UpdateData', FALSE)
             /\ s.error_bar_name # Absent =>
                   RendersSamples(s, s.error_bar_item, n, UpdateX', UpdateData', TRUE)
      ]_vars

\* A sorting series with error bars has rendered the first sample of a snapshot
\* that holds two points and one error: the second sample is left out
C13_Witness ==
    /\ series_call # <<>>
    /\ series[1].plot_left_to_right
    /\ series[1].error_bar_name # Absent
    /\ Len(UpdateX) = 2
    /\ Len(channel(UpdateData, "Y")) = 2
    /\ series[1].num_current_points = 1
    /\ series[1].data_item.y = <<10>>
    /\ series[1].error_bar_item.height = <<1>>

-----------------------------------------------------------------------------
(* Properties of the series the X-Y plot widget owns (checked under Spec) *)

NonDecreasing(a) == \A i \in 1..(Len(a) - 1) : a[i] <= a[i + 1]

\* C12 as stated: the x values every series of the X-Y plot widget has rendered
\* are in non-decreasing order, in whatever order the samples arrived.
C12_Original ==
    plot = "xy" =>
        \A i \in 1..Len(series) :
            /\ NonDecreasing(series[i].data_item.x)
            /\ NonDecreasing(series[i].error_bar_item.x)

-----------------------------------------------------------------------------
(* The applet in rolling mode: a scan without axes whose points arrive one   *)
(* by one, the datasets of a point not all at once                           *)

\* The point datasets present in a snapshot: those of the channels `names`,
\* with the phase flag `phase`
RollingPointsOf(phase, names) ==
    [axis_0 |-> Absent,
     channel |-> <<>>,
     point_phase |-> Some(phase),
     point |-> [n \in names |-> RollingPoints(phase, TRUE).point[n]]]

\* Snapshots of a scan without axes: before and after the channels are known,
\* without a point, and with a point of which any channel may still be missing
RollingSnapshots ==
    {Snapshot(Some("pkg.Frag"), Some(JsonText(AxesList(0))), channels, points) :
        channels \in {Absent, Some(JsonText(SchemaGood))},
        points \in {NoPoints}
                   \cup {RollingPointsOf(phase, names) :
                            phase \in BOOLEAN,
                            names \in {{"A", "A_err", "B"}, {"A", "A_err"},
                                       {"A", "B"}, {"B"}, {}}}}

\* The applet delivers a snapshot of the scan without axes
RollingDataChanged ==
    /\ \E data \in RollingSnapshots, mods \in Mods : MainWidget_data_changed(data, mods)
    /\ UNCHANGED <<extract_vars, rest_vars>>

RollingPlotNext == RollingDataChanged \/ SetHistoryLength

SpecRollingPlot == Init /\ [][RollingPlotNext]_vars

-----------------------------------------------------------------------------
(* Properties of incomplete snapshots and of the rolling plot widget        *)
(* (checked under SpecRollingPlot)                                          *)

\* C14 as stated: whatever recognised keys a snapshot lacks, data_changed
\* returns without raising and nothing is surfaced to the user.
C14_Original ==
    /\ raised = "none"
    /\ error_emitted = <<>>
    /\ message_label = WaitingMessage

\* the entry append reads for series s from the snapshot data
PointEntry(s, data) ==
    IF s.error_bar_name # Absent
    THEN <<data.point[s.data_name], 2 * data.point[s.error_bar_name[1]]>>
    ELSE <<data.point[s.data_name]>>

\* series s has become s2 by appending the one entry the snapshot holds for it
AppendedOne(s, s2, data) ==
    /\ s.data_name \in DOMAIN data.point
    /\ s.error_bar_name # Absent => s.error_bar_name[1] \in DOMAIN data.point
    /\ s2.values = IF Len(s.values) < Len(s.x_indices)
                   THEN Append(s.values, PointEntry(s, data))
                   ELSE Append(Tail(s.values), PointEntry(s, data))

\* C18 as stated: in the ready rolling plot widget a data_changed call whose
\* point_phase is present and differs from the recorded phase appends exactly
\* one entry to every series and records the new phase; a call whose
\* point_phase is absent or equal leaves every buffer and the phase unchanged.
C18_Original ==
    [][(/\ plot = "rolling"
        /\ series_initialised
        /\ call_args' # Absent
        /\ num_history_box' = num_history_box)
       => LET data == CallData'
              phase == data.point_phase
          IN IF phase # Absent /\ phase[1] # point_phase
             THEN /\ \A i \in 1..Len(series) :
                        AppendedOne(series[i], series'[i], data)
                  /\ point_phase' = phase[1]
             ELSE /\ series' = series
                  /\ point_phase' = point_phase
      ]_vars

-----------------------------------------------------------------------------
(* A _Rolling1DSeries on its own: any interleaving of append and            *)
(* set_history_length calls on one series, with or without error bars       *)

\* the most calls that take effect on the series
MaxCalls == 5

\* the values of channel Y; the error of every point is YError
YValues == {1, 2}

YError == 3

\* A snapshot holding the point datasets of the channels `names`, Y of value v
PointData(v, names) ==
    [axis_0 |-> Absent,
     channel |-> <<>>,
     point_phase |-> Absent,
     point |-> [n \in names |-> IF n = "Y" THEN v ELSE YError]]

\* the snapshots given to append: a whole point, or one with a dataset missing
PointDatas ==
    {PointData(v, {"Y", "Y_err"}) : v \in YValues}
    \cup {PointData(1, {"Y"}), PointData(1, {"Y_err"})}

\* the history lengths asked for, zero and negative ones among them
HistoryLengths == (-1)..MaxHistory

\* every way the plot widget constructs the series: the history length is the
\* value of the spin box, which is at least 1
RollingInit ==
    /\ \E error_bar_name \in {Absent, Some("Y_err")}, history_length \in 1..MaxHistory :
          MainInitWith(<<Rolling1DSeries("Y", error_bar_name, series_color(0),
                                         history_length)>>)
    /\ RestInit
    /\ channels_arg = <<>>
    /\ extract_result = NotRun

\* append(data) is called on the series
RollingAppend ==
    /\ Len(series_log) < MaxCalls
    /\ \E data \in PointDatas :
         /\ series_call' = <<"append", data>>
         /\ IF Rolling1DSeries_append_raises(series[1], data)
            THEN /\ raised' = "KeyError"
                 /\ UNCHANGED <<series, series_log>>
            ELSE /\ raised' = "none"
                 /\ series' = <<Rolling1DSeries_append(series[1], data)>>
                 /\ series_log' = Append(series_log, <<"append", data.point>>)
    /\ UNCHANGED <<title_set, window_title, plot_initialised, plot, plots_created,
                   message_label, current_widget, x_label, series_initialised,
                   point_phase, num_history_box, extract_calls, error_emitted,
                   call_args, plot_call_args>>
    /\ UNCHANGED <<extract_vars, writeback_vars, menu_vars, shorten>>

\* set_history_length(n) is called on the series
RollingSetHistoryLength ==
    /\ Len(series_log) < MaxCalls
    /\ \E n \in HistoryLengths :
         /\ series_call' = <<"set_history_length", n>>
         /\ IF history_length_valid(n)
            THEN /\ raised' = "none"
                 /\ series' = <<Rolling1DSeries_set_history_length(series[1], n)>>
                 /\ series_log' = Append(series_log, <<"set_history_length", <<n>>>>)
            ELSE /\ raised' = "AssertionError"
                 /\ UNCHANGED <<series, series_log>>
    /\ UNCHANGED <<title_set, window_title, plot_initialised, plot, plots_created,
                   message_label, current_widget, x_label, series_initialised,
                   point_phase, num_history_box, extract_calls, error_emitted,
                   call_args, plot_call_args>>
    /\ UNCHANGED <<extract_vars, writeback_vars, menu_vars, shorten>>

RollingNext == RollingAppend \/ RollingSetHistoryLength

SpecRolling == RollingInit /\ [][RollingNext]_vars

-----------------------------------------------------------------------------
(* Properties of _Rolling1DSeries (checked under SpecRolling) *)

\* the current capacity N of the series: the number of offsets it keeps
Capacity == Len(series[1].x_indices)

\* no set_history_length call has been made since the series was constructed
CapacityNeverSet ==
    \A i \in 1..Len(series_log) : series_log[i][1] = "append"

\* what the buffer is to hold for the appended point pt: its value and, for a
\* series with error bars, its error as the full span of the bar
BufferEntry(s, pt) ==
    IF s.error_bar_name # Absent
    THEN <<pt[s.data_name], 2 * pt[s.error_bar_name[1]]>>
    ELSE <<pt[s.data_name]>>

\* C15: while the capacity N has not been changed, after k appends the buffer
\* holds the last min(k, N) appended entries in append order, and they are
\* displayed at the offsets -min(k, N)..-1, the most recent one at -1.
C15_RollingWindow ==
    (series_log # <<>> /\ CapacityNeverSet) =>
        LET s == series[1]
            k == Len(series_log)
            m == Min(k, Capacity)
            expected == [i \in 1..m |-> BufferEntry(s, series_log[k - m + i][2])]
            offsets == [i \in 1..m |-> i - m - 1]
        IN /\ s.values = expected
           /\ s.data_item.x = offsets
           /\ s.data_item.y = [i \in 1..m |-> expected[i][1]]
           /\ s.error_bar_name # Absent =>
                 /\ s.error_bar_item.x = offsets
                 /\ s.error_bar_item.y = [i \in 1..m |-> expected[i][1]]
                 /\ s.error_bar_item.height = [i \in 1..m |-> expected[i][2]]

\* Three points appended to a series with error bars and capacity 2, the first
\* differing from the other two: the first has been evicted
C15_Witness ==
    /\ Len(series_log) = 3
    /\ CapacityNeverSet
    /\ Capacity = 2
    /\ series[1].error_bar_name # Absent
    /\ series_log[1][2]["Y"] # series_log[2][2]["Y"]
    /\ series_log[2][2]["Y"] = series_log[3][2]["Y"]

\* the call that has just taken effect (in a step that adds to series_log)
LastCall == series_log[Len(series_log)]

\* C16: set_history_length(m) truncates a buffer of more than m entries to its
\* most recent m in order, and leaves a buffer of at most m entries as it is, so
\* growing the capacity brings nothing back; it makes m the capacity. An append
\* to a buffer below capacity extends it by the new entry, evicting nothing.
C16_ShrinkGrow ==
    [][series_log' # series_log =>
        LET s == series[1]
            t == series'[1]
            k == Len(s.values)
        IN /\ LastCall'[1] = "set_history_length" =>
                LET m == LastCall'[2][1]
                IN /\ Len(t.x_indices) = m
                   /\ k > m => t.values = SubSeq(s.values, k - m + 1, k)
                   /\ k <= m => t.values = s.values
           /\ (LastCall'[1] = "append" /\ k < Len(s.x_indices)) =>
                t.values = Append(s.values, BufferEntry(s, LastCall'[2]))
      ]_vars

\* Two points appended, the capacity cut to 1 and raised to 2 again, then a
\* third point appended: the buffer holds the second and the third
C16_Witness ==
    /\ Len(series_log) = 5
    /\ series_log[1][1] = "append"
    /\ series_log[2][1] = "append"
    /\ series_log[3][1] = "set_history_length"
    /\ series_log[3][2][1] = 1
    /\ series_log[4][1] = "set_history_length"
    /\ series_log[4][2][1] = 2
    /\ series_log[5][1] = "append"
    /\ series_log[1][2]["Y"] # series_log[2][2]["Y"]
    /\ Len(series[1].values) = 2

\* C17: the buffer never holds more entries than the capacity N, and N >= 1;
\* set_history_length(n) with n <= 0 fails and leaves the series (its buffer and
\* its capacity) as it was.
C17_CapacityBound ==
    /\ [](Len(series[1].values) <= Capacity /\ Capacity >= 1)
    /\ [][(series_call' # <<>>
           /\ series_call'[1] = "set_history_length"
           /\ series_call'[2] <= 0)
          => /\ raised' = "AssertionError"
             /\ series' = series
             /\ series_log' = series_log
         ]_vars

\* set_history_length(0) has just failed on a series whose buffer is full
C17_Witness ==
    /\ series_call # <<>>
    /\ series_call[1] = "set_history_length"
    /\ series_call[2] = 0
    /\ raised = "AssertionError"
    /\ Len(series[1].values) = Capacity

-----------------------------------------------------------------------------
(* _MainWidget.set_dataset: dataset write-backs, each run as a task of its   *)
(* own on the event loop that also delivers the snapshots                    *)

\* the most write-backs the user starts
MaxWritebacks == 2

\* the datasets the context menu of the X-Y plot offers to set
DatasetKeys == {"ds.freq"}

\* Line 453: the task asyncio.ensure_future makes of _set_dataset_impl(key, value).
\* pc is where the coroutine stands; failed is the step that raised, closed says
\* whether close_rpc has run, exception is what the task ended with.
new_writeback(key, value) ==
    [key |-> key, value |-> value, pc |-> "created", failed |-> "none",
     closed |-> FALSE, exception |-> "none"]

\* writeback_except without the except clause: the exception ends the task
writeback_except_missing(t, i, exc) ==
    [task |-> [t EXCEPT !.pc = "done", !.failed = exc, !.exception = exc],
     logged |-> <<>>]

\* Lines 465-466: the bare except around the whole of the write-back catches the
\* exception exc raised in task t (the i-th one) and logs it
writeback_except(t, i, exc) ==
    [task |-> [t EXCEPT !.pc = "done", !.failed = exc],
     logged |-> <<[level |-> "error", message |-> "Failed to set dataset",
                   key |-> t.key, task |-> i]>>]

\* One step of task t, the i-th one, from one await to the next; ok says whether
\* the awaited call succeeds
set_dataset_impl_step(t, i, ok) ==
    IF t.pc = "created"
    THEN \* lines 456-459: log, make the client, start to connect
         [task |-> [t EXCEPT !.pc = "connecting"],
          logged |-> <<[level |-> "info", message |-> "Setting",
                        key |-> t.key, task |-> i]>>]
    ELSE IF t.pc = "connecting"
    THEN \* lines 459-462: connect_rpc returns or raises
         IF ok THEN [task |-> [t EXCEPT !.pc = "setting"], logged |-> <<>>]
         ELSE writeback_except(t, i, "connect_rpc")
    ELSE \* lines 462-464: set returns or raises; close_rpc runs either way
         IF ok THEN [task |-> [t EXCEPT !.pc = "done", !.closed = TRUE], logged |-> <<>>]
         ELSE writeback_except([t EXCEPT !.closed = TRUE], i, "set")

\* Snapshots of a scan over one axis
WritebackSnapshots ==
    {Snapshot(Some("pkg.Frag"), Some(JsonText(AxesList(1))), Some(JsonText(SchemaGood)),
              points) :
        points \in {NoPoints} \cup {XYPoints(nx, nx) : nx \in 1..MaxPoints}}

\* The applet delivers a snapshot of the scan over one axis
WritebackDataChanged ==
    /\ \E data \in WritebackSnapshots, mods \in Mods : MainWidget_data_changed(data, mods)
    /\ UNCHANGED <<extract_vars, rest_vars>>

\* The user picks "Set '<key>' from crosshair" in the context menu of the X-Y
\* plot: set_dataset(key, value)
SetDataset ==
    /\ plot = "xy"
    /\ Len(writebacks) < MaxWritebacks
    /\ \E key \in DatasetKeys :
         writebacks' = Append(writebacks, new_writeback(key, 0))
    /\ UNCHANGED <<main_vars, extract_vars, series_vars, menu_vars, log, shorten>>

\* The event loop runs one of the write-back tasks up to its next await
WritebackRun ==
    /\ \E i \in 1..Len(writebacks), ok \in BOOLEAN :
         /\ writebacks[i].pc # "done"
         /\ LET r == set_dataset_impl_step(writebacks[i], i, ok)
            IN /\ writebacks' = [writebacks EXCEPT ![i] = r.task]
               /\ log' = log \o r.logged
    /\ UNCHANGED <<main_vars, extract_vars, series_vars, menu_vars, shorten>>

WritebackNext == WritebackDataChanged \/ SetDataset \/ WritebackRun

SpecWriteback == Init /\ [][WritebackNext]_vars

-----------------------------------------------------------------------------
(* Properties of the write-back (checked under SpecWriteback) *)

\* the failure of the i-th write-back has been logged
FailureLogged(i) ==
    \E j \in 1..Len(log) : log[j].level = "error" /\ log[j].task = i

\* C19: a write-back runs as a task of its own. Its failure, in connecting or
\* in setting, is caught and logged and ends the task without an exception;
\* no data_changed call raises; a step of a write-back leaves the state of the
\* main widget, the plot widget and the series unchanged, and every change of
\* that state is the effect of a data_changed call on that state alone.
C19_WritebackIsolated ==
    [][/\ \A i \in 1..Len(writebacks') :
             /\ writebacks'[i].exception = "none"
             /\ (writebacks'[i].pc = "done" /\ writebacks'[i].failed # "none")
                   => FailureLogged(i)'
       /\ raised' = "none"
       /\ writeback_vars' # writeback_vars => UNCHANGED main_vars
       /\ main_vars' # main_vars =>
             \E data \in WritebackSnapshots, mods \in Mods :
                 MainWidget_data_changed(data, mods)
      ]_vars

\* One write-back has failed in connecting and one in setting, and the series
\* have rendered the points delivered since
C19_Witness ==
    /\ Len(writebacks) = 2
    /\ writebacks[1].failed = "connect_rpc"
    /\ writebacks[2].failed = "set"
    /\ Len(series) > 0
    /\ series[1].num_current_points = MaxPoints
    /\ current_widget = "plot"

-----------------------------------------------------------------------------
(* ContextMenuBuilder (src/ndscan/plots/plot_widgets.py): any sequence of   *)
(* append_action, append_widget_action and ensure_separator calls           *)

\* the most calls made on one builder
MaxMenuCalls == 4

\* the titles given to append_action; a caller may give the empty title too
Titles == {"Open", ""}

\* QtWidgets.QAction(title, self._target_menu)
QAction(title) == [class |-> "QAction", title |-> title, separator |-> FALSE]

\* QtWidgets.QWidgetAction(self._target_menu)
QWidgetAction == [class |-> "QWidgetAction", title |-> "", separator |-> FALSE]

\* action.setSeparator(True)
setSeparator(action) == [action EXCEPT !.separator = TRUE]

\* finish(): the list of entries itself
finish == entries

\* separator_needed without the test: every call appends a separator
separator_needed_always(last_was_no) == TRUE

\* Line 88: a separator is appended only after an entry that is none
separator_needed(last_was_no) == last_was_no

\* _append(action)
ContextMenuBuilder_append(action) ==
    /\ last_was_no_separator' = TRUE
    /\ entries' = Append(entries, action)

\* append_action(title)
AppendAction ==
    /\ Len(menu_calls) < MaxMenuCalls
    /\ \E title \in Titles :
         /\ ContextMenuBuilder_append(QAction(title))
         /\ menu_calls' = Append(menu_calls, <<"append_action", title>>)
    /\ UNCHANGED <<main_vars, extract_vars, series_vars, writeback_vars, shorten>>

\* append_widget_action()
AppendWidgetAction ==
    /\ Len(menu_calls) < MaxMenuCalls
    /\ ContextMenuBuilder_append(QWidgetAction)
    /\ menu_calls' = Append(menu_calls, <<"append_widget_action", "">>)
    /\ UNCHANGED <<main_vars, extract_vars, series_vars, writeback_vars, shorten>>

\* ensure_separator(): the separator is made by append_action(""), which sets
\* the flag that line 91 then clears
EnsureSeparator ==
    /\ Len(menu_calls) < MaxMenuCalls
    /\ IF separator_needed(last_was_no_separator)
       THEN /\ entries' = Append(entries, setSeparator(QAction("")))
            /\ last_was_no_separator' = FALSE
       ELSE UNCHANGED <<entries, last_was_no_separator>>
    /\ menu_calls' = Append(menu_calls, <<"ensure_separator", "">>)
    /\ UNCHANGED <<main_vars, extract_vars, series_vars, writeback_vars, shorten>>

MenuNext == AppendAction \/ AppendWidgetAction \/ EnsureSeparator

SpecMenu == Init /\ [][MenuNext]_vars

-----------------------------------------------------------------------------
(* Properties of ContextMenuBuilder (checked under SpecMenu) *)

IsNoSeparator(entry) == ~entry.separator

IsAppendCall(call) == call[1] # "ensure_separator"

\* the class of the action a call appends
ClassOf(call) == IF call[1] = "append_action" THEN "QAction" ELSE "QWidgetAction"

\* C20: after any sequence of calls the list finish() returns holds no two
\* adjacent separators and does not begin with one, and its entries that are
\* no separators are the actions appended by append_action and
\* append_widget_action, each once, in call order.
C20_SeparatorsElided ==
    LET result == finish
        actions == SelectSeq(result, IsNoSeparator)
        calls == SelectSeq(menu_calls, IsAppendCall)
    IN /\ \A i \in 1..(Len(result) - 1) :
             ~(result[i].separator /\ result[i + 1].separator)
       /\ Len(result) > 0 => ~result[1].separator
       /\ Len(actions) = Len(calls)
       /\ \A i \in 1..Len(actions) :
             /\ actions[i].class = ClassOf(calls[i])
             /\ actions[i].title = calls[i][2]

\* ensure_separator was called first of all and then twice in a row between
\* two actions: the list holds the two actions and one separator between them
C20_Witness ==
    /\ Len(menu_calls) = MaxMenuCalls
    /\ menu_calls[1][1] = "ensure_separator"
    /\ menu_calls[2][1] = "append_action"
    /\ menu_calls[3][1] = "ensure_separator"
    /\ menu_calls[4][1] = "ensure_separator"
    /\ Len(finish) = 2
    /\ finish[2].separator

-----------------------------------------------------------------------------
(* Properties of the series a plot widget owns (checked under Spec) *)

\* what makes a series the series it is: its channel, its error bar channel
\* and its colour
SeriesIdentity(ss) ==
    [i \in 1..Len(ss) |-> <<ss[i].data_name, ss[i].error_bar_name, ss[i].color>>]

\* the series ss are one per data channel the extractor returns for `channels`,
\* each with the error bar channel of the extractor's mapping and the colour
\* of its position in the palette
OnePerDataChannel(ss, channels) ==
    \E order \in Orders(scalar_names(channels)) :
        LET r == extract_scalar_channels(channels, order)
        IN /\ r.raised = "none"
           /\ Len(ss) = Cardinality(r.data_names)
           /\ {ss[i].data_name : i \in 1..Len(ss)} = r.data_names
           /\ \A i \in 1..Len(ss) :
                 /\ ss[i].error_bar_name =
                       (IF ss[i].data_name \in DOMAIN r.error_bar_names
                        THEN Some(r.error_bar_names[ss[i].data_name]) ELSE Absent)
                 /\ ss[i].color = SERIES_COLORS[((i - 1) % Len(SERIES_COLORS)) + 1]

\* C21: a plot widget owns no series until it becomes ready; the call that makes
\* it ready gives it one series per data channel the extractor returns for the
\* channels blob of that call, with the error bar channel of the mapping and
\* the colour of index i mod the palette size; once ready it stays ready and
\* no later call adds, removes or replaces a series, whatever channels blob a
\* later snapshot carries.
C21_SeriesFrozen ==
    [][/\ ~series_initialised' => series' = <<>>
       /\ (~series_initialised /\ series_initialised') =>
             OnePerDataChannel(series', json_loads(CallData'.channels[1]))
       /\ series_initialised =>
             /\ series_initialised'
             /\ SeriesIdentity(series') = SeriesIdentity(series)
      ]_vars

\* A ready plot widget with its two series has just been given a snapshot with
\* another channels blob
C21_Witness ==
    /\ series_initialised
    /\ Len(series) = 2
    /\ call_args # Absent
    /\ CallData.channels = Some(JsonText(SchemaConflict))
    /\ plot_call_args = call_args

\* series s has become t by rendering: an X-Y series records another count of
\* points, a rolling series hands its error bar item other data
RenderedAnew(s, t) ==
    IF "num_current_points" \in DOMAIN s
    THEN t.num_current_points # s.num_current_points
    ELSE t.error_bar_item # s.error_bar_item

\* C22: whenever a data_changed call makes a series of either plot widget
\* render its error bars anew, the height of every bar is twice the error the
\* snapshot of that call holds for the point: for the X-Y series sample by
\* sample, for the rolling series as the second component of the entry it
\* appends and the heights it displays.
C22_ErrorBarFullSpan ==
    [][\A i \in 1..Len(series) :
          (/\ Len(series') = Len(series)
           /\ series[i].error_bar_name # Absent
           /\ RenderedAnew(series[i], series'[i]))
          => LET s == series'[i]
                 eb == s.error_bar_name[1]
                 bars == s.error_bar_item
             IN IF plot = "xy"
                THEN /\ Len(bars.height) = s.num_current_points
                     /\ \A j \in 1..Len(bars.height) :
                           bars.height[j] = 2 * CallData'.channel[eb][j]
                ELSE /\ s.values[Len(s.values)][2] = 2 * CallData'.point[eb]
                     /\ bars.height = [j \in 1..Len(s.values) |-> s.values[j][2]]
      ]_vars

\* The X-Y series of channel A has rendered two points with their error bars
C22_Witness ==
    /\ plot = "xy"
    /\ \E i \in 1..Len(series) :
          /\ series[i].error_bar_name = Some("A_err")
          /\ series[i].num_current_points = 2
          /\ series[i].error_bar_item.height = <<2, 4>>

-----------------------------------------------------------------------------
(* Further properties of the rolling plot widget (checked under             *)
(* SpecRollingPlot), of _Rolling1DSeries (under SpecRolling) and of         *)
(* _XYSeries (under SpecXY)                                                 *)

\* C23 as stated: all series of the rolling plot widget hold the same number
\* of buffered entries, also after data_changed calls that were aborted.
C23_Original ==
    plot = "rolling" =>
        \A i, j \in 1..Len(series) : Len(series[i].values) = Len(series[j].values)

\* C24 as stated: once a point has been appended, the displayed trace is the
\* buffer: the buffered values in order at the offsets -k..-1, k the number of
\* buffered entries (and likewise the error bars).
C24_Original ==
    (\E i \in 1..Len(series_log) : series_log[i][1] = "append") =>
        LET s == series[1]
            k == Len(s.values)
            offsets == [i \in 1..k |-> i - k - 1]
        IN /\ s.data_item.x = offsets
           /\ s.data_item.y = [i \in 1..k |-> s.values[i][1]]
           /\ s.error_bar_name # Absent =>
                 /\ s.error_bar_item.x = offsets
                 /\ s.error_bar_item.y = [i \in 1..k |-> s.values[i][1]]
                 /\ s.error_bar_item.height = [i \in 1..k |-> s.values[i][2]]

\* C25 as stated: the items of an _XYSeries are attached to the plot at most
\* once, not before a point has been rendered, and by the first update that
\* renders n > 0 points.
C25_Original ==
    [][/\ series'[1].data_item_added <= 1
       /\ series'[1].error_bar_item_added <= 1
       /\ (series[1].data_item_added = 0 /\ series'[1].num_current_points = 0)
             => series'[1].data_item_added = 0
       /\ (series[1].data_item_added = 0 /\ series'[1].num_current_points > 0)
             => /\ series'[1].data_item_added = 1
                /\ series'[1].error_bar_name # Absent
                      => series'[1].error_bar_item_added = 1
      ]_vars

-----------------------------------------------------------------------------
(* shorten_to_unambiguous_suffixes (src/ndscan/utils.py), called with the   *)
(* get_last_n_parts that joins the last n parts of a name. A name is the    *)
(* tuple of its parts, and so is a shortened name.                          *)

\* the most parts a name has
MaxParts == 2

\* the most names given in one call
MaxNames == 3

Parts == {"a", "b"}

Names == UNION {[1..k -> Parts] : k \in 1..MaxParts}

\* the fqns argument: any list of names; a name may come more than once
NameLists == UNION {[1..k -> Names] : k \in 0..MaxNames}

\* get_last_n_parts(fqn, n): ".".join(fqn.split(".")[-n:]), the whole name
\* when it has fewer than n parts
get_last_n_parts(fqn, n) ==
    SubSeq(fqn, Len(fqn) - Min(n, Len(fqn)) + 1, Len(fqn))

\* dct[key] = value
dict_set(dct, key, value) ==
    [k \in (DOMAIN dct) \cup {key} |-> IF k = key THEN value ELSE dct[k]]

\* The loop of lines 67-74 over existing_fqns in the iteration order `order`,
\* from position k: the first name whose short name is still the candidate,
\* none if there is none, or the KeyError of shortened_fqns[old] (line 68) for a
\* name that has no short name yet
RECURSIVE find_unmoved(_, _, _, _)
find_unmoved(order, k, shortened_fqns, candidate) ==
    IF k > Len(order) THEN [old |-> Absent, raised |-> "none"]
    ELSE IF order[k] \notin DOMAIN shortened_fqns
    THEN [old |-> Absent, raised |-> "KeyError"]
    ELSE IF shortened_fqns[order[k]] = candidate
    THEN [old |-> Some(order[k]), raised |-> "none"]
    ELSE find_unmoved(order, k + 1, shortened_fqns, candidate)

\* Lines 50-51 and the start of the loop of line 53
shorten_begin(fqns) ==
    [fqns |-> fqns, short_to_fqns |-> <<>>, shortened_fqns |-> <<>>,
     i |-> 1, n |-> 1, raised |-> "none", returned |-> Len(fqns) = 0]

\* the for loop of line 53 goes on to the next name, or line 78 returns
shorten_next_name(c) ==
    [c EXCEPT !.i = @ + 1, !.n = 1, !.returned = c.i + 1 > Len(c.fqns)]

\* One pass through the body of `while True` (lines 58-76) for the name
\* fqns[i], preceded at n = 1 by the test of lines 54-55; `order` is the order
\* in which the set existing_fqns is iterated
shorten_step(c, order) ==
    LET current == c.fqns[c.i]
        candidate == get_last_n_parts(current, c.n)
    IN IF c.n = 1 /\ current \in DOMAIN c.shortened_fqns
       THEN shorten_next_name(c)
       ELSE IF candidate \notin DOMAIN c.short_to_fqns
       THEN shorten_next_name(
                [c EXCEPT !.short_to_fqns = dict_set(@, candidate, {current}),
                          !.shortened_fqns = dict_set(@, current, candidate)])
       ELSE LET existing_fqns == c.short_to_fqns[candidate]
                found == find_unmoved(order, 1, c.shortened_fqns, candidate)
            IN IF found.raised # "none" THEN [c EXCEPT !.raised = found.raised]
               ELSE IF found.old = Absent
               THEN [c EXCEPT
                       !.short_to_fqns =
                           dict_set(@, candidate, existing_fqns \cup {current}),
                       !.n = @ + 1]
               ELSE LET old == found.old[1]
                        new == get_last_n_parts(old, c.n + 1)
                        moved == dict_set(c.short_to_fqns, new, {old})
                    IN [c EXCEPT
                          !.shortened_fqns = dict_set(@, old, new),
                          \* line 75 adds to the set object read at line 66,
                          \* which line 73 has taken out of the dict if
                          \* new = candidate
                          !.short_to_fqns =
                              IF new = candidate THEN moved
                              ELSE dict_set(moved, candidate,
                                            existing_fqns \cup {current}),
                          !.n = @ + 1]

\* the iteration orders of existing_fqns the pass may meet
shorten_orders(c) ==
    LET candidate == get_last_n_parts(c.fqns[c.i], c.n)
    IN IF candidate \in DOMAIN c.short_to_fqns
       THEN Orders(c.short_to_fqns[candidate])
       ELSE {<<>>}

\* shorten_to_unambiguous_suffixes(fqns, get_last_n_parts) is called
ShortenCall ==
    /\ shorten = <<>>
    /\ \E fqns \in NameLists : shorten' = shorten_begin(fqns)
    /\ UNCHANGED <<main_vars, extract_vars, series_vars, writeback_vars, menu_vars>>

\* the call makes one pass through its loop
ShortenStep ==
    /\ shorten # <<>>
    /\ ~shorten.returned
    /\ shorten.raised = "none"
    /\ shorten.n <= MaxParts + MaxNames
    /\ \E order \in shorten_orders(shorten) :
          shorten' = shorten_step(shorten, order)
    /\ UNCHANGED <<main_vars, extract_vars, series_vars, writeback_vars, menu_vars>>

ShortenNext == ShortenCall \/ ShortenStep

SpecShorten == Init /\ [][ShortenNext]_vars

-----------------------------------------------------------------------------
(* Properties of shorten_to_unambiguous_suffixes (checked under SpecShorten) *)

Distinct(list) == \A i, j \in 1..Len(list) : list[i] = list[j] => i = j

\* C26 as stated: for distinct names the call ends without an error, and the
\* mapping it returns has an entry for every name, each being
\* get_last_n_parts(name, n) for some n >= 1, and no two names share one.
C26_Original ==
    (shorten # <<>> /\ Distinct(shorten.fqns)) =>
        /\ shorten.raised = "none"
        /\ shorten.n <= MaxParts + MaxNames
        /\ shorten.returned =>
              LET result == shorten.shortened_fqns
              IN /\ DOMAIN result = Range(shorten.fqns)
                 /\ \A name \in DOMAIN result :
                       \E m \in 1..Len(name) : result[name] = get_last_n_parts(name, m)
                 /\ \A a, b \in DOMAIN result : result[a] = result[b] => a = b

====
